---- MODULE Spec2Model ----
(***************************************************************************)
(* A model of the NeuralNetwork class of                                   *)
(* simple_neural_network_iris_example.ipynb: one hidden ReLU layer, a      *)
(* softmax output layer, cross-entropy loss and full-batch gradient        *)
(* descent.                                                                *)
(*                                                                         *)
(* Numbers.  The notebook computes in float64.  Here every real is a       *)
(* fixed-point integer counting units of 1/Scale, and every product or     *)
(* quotient is rounded to the nearest unit (RDiv).  np.exp and np.log are  *)
(* computed the way a maths library computes them (range reduction by      *)
(* ln 2, then a polynomial), at that precision.  The loss alone is kept to  *)
(* 1e-9, the size of the constant compute_loss adds inside the logarithm.  *)
(* Matrices are functions from 0-based row indices to functions from       *)
(* 0-based column indices; elementwise operations broadcast as numpy does, *)
(* and operands that do not fit raise ValueError.                          *)
(*                                                                         *)
(* Control.  The public methods forward, predict, backward and             *)
(* update_parameters are one action each.  train is a sequence of steps,   *)
(* one per statement of its body, ordered by pc; no other call runs while  *)
(* a train call is active (the program is single-threaded).  Spec makes    *)
(* any sequence of calls on well-shaped batches, TrainSpec one long train  *)
(* call, and CallSpec the calls of a script on data of any shape.          *)
(***************************************************************************)
EXTENDS Integers, Sequences, FiniteSets, TLC

(***************************************************************************)
(* Bounds of the model.                                                    *)
(***************************************************************************)
input_size == 2
hidden_size == 2
output_size == 3
batch_size == 2
NumBatches == 2
MaxSeed == 1
MaxCalls == 3
SmallEpochs == 2
MaxEpochs == 101

(***************************************************************************)
(* Fixed-point arithmetic.                                                 *)
(***************************************************************************)
Scale == 1000

Ln2 == 693

\* a / b rounded to the nearest integer, halves away from zero (b > 0)
RDiv(a, b) ==
    IF a >= 0 THEN (2 * a + b) \div (2 * b)
              ELSE -((2 * (-a) + b) \div (2 * b))

\* the product of two fixed-point numbers
Mul(a, b) == RDiv(a * b, Scale)

RECURSIVE SumTo(_, _)
\* f[0] + ... + f[n-1]
SumTo(f, n) == IF n = 0 THEN 0 ELSE SumTo(f, n - 1) + f[n - 1]

Rows(M) == Cardinality(DOMAIN M)

Cols(M) == Cardinality(DOMAIN M[0])

Shape(M) == <<Rows(M), Cols(M)>>

Idx(n) == 0 .. (n - 1)

\* M.T
Transpose(M) == [j \in Idx(Cols(M)) |-> [i \in Idx(Rows(M)) |-> M[i][j]]]

\* np.dot(A, B): the products are summed exactly and the sum rounded once
dot(A, B) ==
    [i \in Idx(Rows(A)) |->
        [j \in Idx(Cols(B)) |->
            RDiv(SumTo([k \in Idx(Cols(A)) |-> A[i][k] * B[k][j]], Cols(A)), Scale)]]

\* A + b with the one-row matrix b broadcast over the rows of A
AddRow(A, b) == [i \in DOMAIN A |-> [j \in DOMAIN A[i] |-> A[i][j] + b[0][j]]]

\* np.dot(A, B) raises ValueError unless the inner dimensions agree
DotOK(A, B) == Cols(A) = Rows(B)

\* an elementwise operation on A and B raises ValueError unless, along each
\* axis, the two lengths are equal or one of them is 1
BroadcastOK(A, B) ==
    /\ Rows(A) = Rows(B) \/ Rows(A) = 1 \/ Rows(B) = 1
    /\ Cols(A) = Cols(B) \/ Cols(A) = 1 \/ Cols(B) = 1

\* the shape of the result of an elementwise operation on A and B
BRows(A, B) == IF Rows(A) = 1 THEN Rows(B) ELSE Rows(A)

BCols(A, B) == IF Cols(A) = 1 THEN Cols(B) ELSE Cols(A)

\* the entry of M at <<i, j>> after broadcasting: an axis of length 1 repeats
At(M, i, j) == M[IF Rows(M) = 1 THEN 0 ELSE i][IF Cols(M) = 1 THEN 0 ELSE j]

\* A - B, elementwise with broadcasting
MSub(A, B) ==
    [i \in Idx(BRows(A, B)) |-> [j \in Idx(BCols(A, B)) |-> At(A, i, j) - At(B, i, j)]]

\* A * B, elementwise with broadcasting, for B a matrix of plain 0s and 1s
MMask(A, B) ==
    [i \in Idx(BRows(A, B)) |-> [j \in Idx(BCols(A, B)) |-> At(A, i, j) * At(B, i, j)]]

\* c * A for a fixed-point scalar c
MScale(c, A) == [i \in DOMAIN A |-> [j \in DOMAIN A[i] |-> Mul(c, A[i][j])]]

\* A / m for a row count m
MDiv(A, m) == [i \in DOMAIN A |-> [j \in DOMAIN A[i] |-> RDiv(A[i][j], m)]]

\* np.sum(A, axis=0, keepdims=True)
ColSum(A) ==
    [i \in {0} |-> [j \in Idx(Cols(A)) |-> SumTo([r \in Idx(Rows(A)) |-> A[r][j]], Rows(A))]]

\* np.exp(-t) for t >= 0: e^-t = 2^-q * e^-r with t = q ln 2 + r, and e^-r
\* by its degree-5 Taylor polynomial; it underflows to 0
ExpNeg(t) ==
    LET q  == t \div Ln2
        r  == t % Ln2
        h5 == Scale - r \div 5
        h4 == Scale - (r * h5) \div (4 * Scale)
        h3 == Scale - (r * h4) \div (3 * Scale)
        h2 == Scale - (r * h3) \div (2 * Scale)
        h1 == Scale - (r * h2) \div Scale
    IN  IF q >= 10 THEN 0 ELSE h1 \div (2 ^ q)

RECURSIVE LnSeries(_, _, _)
\* u^n/n + u^(n+1)/(n+1) + ... + u^10/10, with pw = u^n
LnSeries(u, pw, n) ==
    IF n > 10 THEN 0 ELSE RDiv(pw, n) + LnSeries(u, Mul(pw, u), n + 1)

RECURSIVE Doublings(_)
\* the k with Scale/2 < p * 2^k <= Scale, for 0 < p <= Scale
Doublings(p) == IF 2 * p > Scale THEN 0 ELSE 1 + Doublings(2 * p)

\* np.log(p + 1e-9): the 1e-9 is below one unit and only decides log(0);
\* ln p = -k ln 2 + ln(1 - u) with p * 2^k = 1 - u
LogEps(p) ==
    IF p <= 0 THEN -20723
    ELSE LET k == Doublings(p)
             u == Scale - p * (2 ^ k)
         IN  -(k * Ln2) - LnSeries(u, u, 1)

\* the number of 1e-9 in one unit
NanoPerUnit == 1000000

\* the part of np.log(p + 1e-9) that LogEps leaves out, in units of 1e-9:
\* log(1e-9) = -20.723265837, and log(p + 1e-9) = log p + 1e-9 / p for p > 0
LogEpsNano(p) == IF p <= 0 THEN -265837 ELSE RDiv(Scale, p)

Max(a, b) == IF a >= b THEN a ELSE b

RECURSIVE RowMax(_, _)
\* np.max of the first n entries of a row f (n >= 1)
RowMax(f, n) == IF n = 1 THEN f[0] ELSE Max(RowMax(f, n - 1), f[n - 1])

(***************************************************************************)
(* The pure parts of NeuralNetwork.                                        *)
(***************************************************************************)
\* relu: np.maximum(0, x)
relu(X) == [i \in DOMAIN X |-> [j \in DOMAIN X[i] |-> Max(0, X[i][j])]]

\* a relu_derivative that takes the derivative at 0 to be 1
relu_derivative_ge(X) ==
    [i \in DOMAIN X |-> [j \in DOMAIN X[i] |-> IF X[i][j] >= 0 THEN 1 ELSE 0]]

\* relu_derivative: (x > 0).astype(float), as the plain numbers 0 and 1
relu_derivative(X) ==
    [i \in DOMAIN X |-> [j \in DOMAIN X[i] |-> IF X[i][j] > 0 THEN 1 ELSE 0]]

\* a softmax whose np.sum lacks axis=1: it divides by the sum over all rows
softmax_noaxis(X) ==
    LET n     == Cols(X)
        exp_x == [i \in DOMAIN X |-> [j \in Idx(n) |-> ExpNeg(RowMax(X[i], n) - X[i][j])]]
        tot   == SumTo([i \in Idx(Rows(X)) |-> SumTo(exp_x[i], n)], Rows(X))
    IN  [i \in DOMAIN X |-> [j \in Idx(n) |-> RDiv(exp_x[i][j] * Scale, tot)]]

\* softmax: exp(x - rowmax) / rowsum
softmax(X) ==
    [i \in DOMAIN X |->
        LET n     == Cols(X)
            mx    == RowMax(X[i], n)
            exp_x == [j \in Idx(n) |-> ExpNeg(mx - X[i][j])]
            tot   == SumTo(exp_x, n)
        IN  [j \in Idx(n) |-> RDiv(exp_x[j] * Scale, tot)]]

\* compute_loss: -sum(y_true * log(y_pred + 1e-9)) / m, the product with
\* broadcasting.  The result is kept to 1e-9, the size of the constant the
\* code adds: milli counts whole units (rounded down), nano the rest in 1e-9
compute_loss(Y, P) ==
    LET m     == Rows(Y)
        R     == BRows(Y, P)
        C     == BCols(Y, P)
        units == SumTo([i \in Idx(R) |->
                     SumTo([j \in Idx(C) |-> At(Y, i, j) * LogEps(At(P, i, j))], C)], R)
        below == SumTo([i \in Idx(R) |->
                     SumTo([j \in Idx(C) |->
                         RDiv(At(Y, i, j) * LogEpsNano(At(P, i, j)), Scale)], C)], R)
        s     == -RDiv(units, Scale)
        n     == RDiv((s % m) * NanoPerUnit - below, m)
    IN  [milli |-> (s \div m) + (n \div NanoPerUnit), nano |-> n % NanoPerUnit]

\* forward: the four intermediates it stores, from x and the parameters
forward(X, W_ih, b_h, W_ho, b_o) ==
    LET zh == AddRow(dot(X, W_ih), b_h)
        ah == relu(zh)
        zo == AddRow(dot(ah, W_ho), b_o)
    IN  [z_hidden |-> zh, a_hidden |-> ah, z_output |-> zo, a_output |-> softmax(zo)]

\* a backward whose hidden bias gradient lacks the column sum: dz_hidden / m
backward_nosum(X, Y, zh, ah, ao, W_ho) ==
    LET m   == Rows(Y)
        dzo == MSub(ao, Y)
        dah == dot(dzo, Transpose(W_ho))
        rd  == relu_derivative(zh)
        dzh == MMask(dah, rd)
    IN  [x |-> X, y_true |-> Y,
         dz_output |-> dzo,
         dw_hidden_to_output |-> MDiv(dot(Transpose(ah), dzo), m),
         db_output |-> MDiv(ColSum(dzo), m),
         da_hidden |-> dah,
         dz_hidden |-> dzh,
         dw_input_to_hidden |-> MDiv(dot(Transpose(X), dzh), m),
         db_hidden |-> MDiv(dzh, m)]

\* a backward whose hidden bias gradient is the column sum, not divided by m
backward_nomean(X, Y, zh, ah, ao, W_ho) ==
    LET m   == Rows(Y)
        dzo == MSub(ao, Y)
        dah == dot(dzo, Transpose(W_ho))
        rd  == relu_derivative(zh)
        dzh == MMask(dah, rd)
    IN  [x |-> X, y_true |-> Y,
         dz_output |-> dzo,
         dw_hidden_to_output |-> MDiv(dot(Transpose(ah), dzo), m),
         db_output |-> MDiv(ColSum(dzo), m),
         da_hidden |-> dah,
         dz_hidden |-> dzh,
         dw_input_to_hidden |-> MDiv(dot(Transpose(X), dzh), m),
         db_hidden |-> ColSum(dzh)]

\* backward: its arguments and locals, from x, y_true, the cached
\* intermediates and the stored hidden-to-output weights
backward(X, Y, zh, ah, ao, W_ho) ==
    LET m   == Rows(Y)
        dzo == MSub(ao, Y)
        dah == dot(dzo, Transpose(W_ho))
        rd  == relu_derivative(zh)
        dzh == MMask(dah, rd)
    IN  [x |-> X, y_true |-> Y,
         dz_output |-> dzo,
         dw_hidden_to_output |-> MDiv(dot(Transpose(ah), dzo), m),
         db_output |-> MDiv(ColSum(dzo), m),
         da_hidden |-> dah,
         dz_hidden |-> dzh,
         dw_input_to_hidden |-> MDiv(dot(Transpose(X), dzh), m),
         db_hidden |-> MDiv(ColSum(dzh), m)]

\* forward(X) gets past its matrix products: np.dot(x, W_ih) is the only one
\* whose operands do not both come from the network
forward_ok(X, W_ih) == DotOK(X, W_ih)

\* compute_loss(Y, P) gets past y_true * np.log(y_pred + 1e-9)
compute_loss_ok(Y, P) == BroadcastOK(Y, P)

\* backward(X, Y) gets past every subtraction, product and matrix product,
\* in the order of its statements
backward_ok(X, Y, zh, ah, ao, W_ho) ==
    LET dzo == MSub(ao, Y)
        dah == dot(dzo, Transpose(W_ho))
        rd  == relu_derivative(zh)
    IN  /\ BroadcastOK(ao, Y)
        /\ DotOK(Transpose(ah), dzo)
        /\ DotOK(dzo, Transpose(W_ho))
        /\ BroadcastOK(dah, rd)
        /\ DotOK(Transpose(X), MMask(dah, rd))

\* the tuple backward returns
Gradients(bw) ==
    <<bw.dw_input_to_hidden, bw.db_hidden, bw.dw_hidden_to_output, bw.db_output>>

\* one statement of update_parameters: p -= learning_rate * g
Descend(p, lr, g) == MSub(p, MScale(lr, g))

RECURSIVE ArgMaxLast(_, _)
\* an argmax whose scan also moves to a later index for an equal entry
ArgMaxLast(f, n) ==
    IF n = 1 THEN 0
    ELSE LET best == ArgMaxLast(f, n - 1)
         IN  IF f[n - 1] >= f[best] THEN n - 1 ELSE best

RECURSIVE ArgMax(_, _)
\* np.argmax of the first n entries of a row f (n >= 1): a left-to-right scan
\* that moves to a later index only for a strictly larger entry
ArgMax(f, n) ==
    IF n = 1 THEN 0
    ELSE LET best == ArgMax(f, n - 1)
         IN  IF f[n - 1] > f[best] THEN n - 1 ELSE best

\* predict's return value from forward's output: np.argmax(y_pred, axis=1)
argmax_rows(P) == [i \in DOMAIN P |-> ArgMax(P[i], Cols(P))]

\* range(start, stop, step) as a sequence (step > 0)
Range(start, stop, step) ==
    LET n == IF stop > start THEN (stop - start + step - 1) \div step ELSE 0
    IN  [k \in 1 .. n |-> start + (k - 1) * step]

\* s[::step] (step > 0)
Slice(s, step) ==
    [k \in 1 .. ((Len(s) + step - 1) \div step) |-> s[1 + (k - 1) * step]]

(***************************************************************************)
(* The inputs the callers supply: feature batches, one-hot label matrices, *)
(* gradients, epoch counts, and the draws of np.random.rand.               *)
(***************************************************************************)
PrintEvery == 100

\* feature values between -1.0 and 2.0; row 0 of batch 0 is all zero
XVal(b, i, k) ==
    IF b = 0 /\ i = 0 THEN 0 ELSE (((3 * i + 2 * k + 5 * b) % 7) - 2) * (Scale \div 2)

Batch(b) == [i \in Idx(batch_size) |-> [k \in Idx(input_size) |-> XVal(b, i, k)]]

\* one-hot rows: row i of label matrix b has its 1 at class (i + b) % output_size
Labels(b) ==
    [i \in Idx(batch_size) |->
        [c \in Idx(output_size) |-> IF c = (i + b) % output_size THEN Scale ELSE 0]]

Batches == Idx(NumBatches)

\* a feature matrix of m rows and k columns
Features(m, k) == [i \in Idx(m) |-> [j \in Idx(k) |-> XVal(1, i, j)]]

\* a one-hot label matrix of m rows and w columns
OneHot(m, w) == [i \in Idx(m) |-> [c \in Idx(w) |-> IF c = i % w THEN Scale ELSE 0]]

\* the class indices as one column, before one-hot encoding
ClassColumn(m) == [i \in Idx(m) |-> [c \in {0} |-> ((i + 1) % output_size) * Scale]]

\* the feature matrices a script may hold: 1 to batch_size rows, input_size
\* columns or one column less or more
FeatureChoices ==
    {Features(m, k) : m \in 1 .. batch_size, k \in (input_size - 1) .. (input_size + 1)}

\* the label matrices a script may hold for m rows: one-hot of width
\* output_size, one-hot of one column less, and the class column
LabelChoices(m) == {OneHot(m, output_size), OneHot(m, output_size - 1), ClassColumn(m)}

\* probability matrices for m rows, by how much they give the class i % output_size
\* of row i: all of it, half of it, or none
Probabilities(m, kind) ==
    [i \in Idx(m) |->
        [c \in Idx(output_size) |->
            LET t == i % output_size
                u == (i + 1) % output_size
            IN  IF kind = "all" THEN (IF c = t THEN Scale ELSE 0)
                ELSE IF kind = "half" THEN (IF c = t \/ c = u THEN Scale \div 2 ELSE 0)
                ELSE (IF c = u THEN Scale ELSE 0)]]

ProbabilityChoices(m) == {Probabilities(m, kind) : kind \in {"all", "half", "none"}}

\* 0.01 * np.random.rand(r, c): entries in [0, 0.01), ten units
Rand(seed, off, r, c) ==
    [i \in Idx(r) |-> [j \in Idx(c) |-> (seed * (off + 7 * i + 4 * j)) % 10]]

\* np.zeros((1, n))
Zeros(n) == [i \in {0} |-> [j \in Idx(n) |-> 0]]

\* the learning rates tried: 0.025 (the notebook's) and 0.5
LearningRates == {25, 500}

\* a gradient tuple a caller may pass to update_parameters, shaped like the
\* parameters, with entries -2.0, 0 and 2.0
SampleGradients ==
    LET G(r, c) == [i \in Idx(r) |-> [j \in Idx(c) |-> (((2 * i + 2 * j + 1) % 3) - 1) * 2 * Scale]]
    IN  <<G(input_size, hidden_size), G(1, hidden_size),
          G(hidden_size, output_size), G(1, output_size)>>

\* the epoch counts tried by a train call among other calls: none and a few
ShortEpochs == {0, SmallEpochs}

\* the epoch counts tried by a long train call: a few small ones and those
\* around the reporting period
EpochChoices == {e \in 0 .. MaxEpochs : e <= SmallEpochs \/ e >= PrintEvery - 1}

(***************************************************************************)
(* State.                                                                  *)
(***************************************************************************)
VARIABLES
    \* the instance's fields
    weights_input_to_hidden, weights_hidden_to_output, bias_hidden, bias_output,
    learning_rate,
    \* the cached intermediates; <<>> while the attribute does not exist
    z_hidden, a_hidden, z_output, a_output,
    \* the frame of the active train call; under CallSpec x and y_true hold
    \* the script's data from the start
    pc, x, y_true, epochs, epoch, next_epoch, loss_history, y_pred, loss, grads,
    \* what the callers and collaborators see
    ret, observations, plot,
    \* bookkeeping of the model: the step last taken, the arguments and locals
    \* of the last backward call, the number of public calls made, the method calls made
    \* by the active train call, and the <<batch, labels>> pairs predict has
    \* returned since update_parameters or train last ran
    step, bw, ncalls, counts, pred_log

params == <<weights_input_to_hidden, weights_hidden_to_output, bias_hidden, bias_output>>

cache == <<z_hidden, a_hidden, z_output, a_output>>

frame == <<pc, x, y_true, epochs, epoch, next_epoch, loss_history, y_pred, loss, grads>>

vars == <<params, learning_rate, cache, frame, ret, observations, plot,
          step, bw, ncalls, counts, pred_log>>

None == [kind |-> "None", val |-> <<>>]

NoCounts == [forward |-> 0, compute_loss |-> 0, backward |-> 0, update_parameters |-> 0]

NoPredictions == <<>>

ValueError == [kind |-> "ValueError", val |-> <<>>]

\* __init__, and no call made
InitNetwork ==
    /\ \E seed \in 1 .. MaxSeed :
        /\ weights_input_to_hidden = Rand(seed, 3, input_size, hidden_size)
        /\ weights_hidden_to_output = Rand(seed, 1, hidden_size, output_size)
    /\ bias_hidden = Zeros(hidden_size)
    /\ bias_output = Zeros(output_size)
    /\ learning_rate \in LearningRates
    /\ z_hidden = <<>> /\ a_hidden = <<>> /\ z_output = <<>> /\ a_output = <<>>
    /\ pc = "idle" /\ epochs = 0 /\ epoch = 0
    /\ next_epoch = 0 /\ loss_history = <<>> /\ y_pred = <<>> /\ loss = 0
    /\ grads = <<>>
    /\ ret = None /\ observations = <<>> /\ plot = <<>>
    /\ step = "init" /\ bw = <<>> /\ ncalls = 0 /\ counts = NoCounts
    /\ pred_log = NoPredictions

\* a constructed network; no train call has had arguments
Init == InitNetwork /\ x = <<>> /\ y_true = <<>>

\* a constructed network, and a script that holds a feature matrix and a
\* label matrix of as many rows, of any widths, in x and y_true
CallInit ==
    /\ InitNetwork
    /\ x \in FeatureChoices
    /\ y_true \in LabelChoices(Rows(x))

(***************************************************************************)
(* The methods, as state changes.                                          *)
(***************************************************************************)
\* a forward that accumulates the hidden pre-activation in place in the bias
\* vector it started from
DoForwardAliased(X) ==
    LET f == forward(X, weights_input_to_hidden, bias_hidden,
                     weights_hidden_to_output, bias_output)
    IN  /\ z_hidden' = f.z_hidden
        /\ a_hidden' = f.a_hidden
        /\ z_output' = f.z_output
        /\ a_output' = f.a_output
        /\ bias_hidden' = [i \in {0} |-> f.z_hidden[0]]
        /\ UNCHANGED <<weights_input_to_hidden, weights_hidden_to_output, bias_output,
                       learning_rate>>

\* a forward that accumulates the output pre-activation in place in the bias
\* vector it started from
DoForwardAliasedOut(X) ==
    LET f == forward(X, weights_input_to_hidden, bias_hidden,
                     weights_hidden_to_output, bias_output)
    IN  /\ z_hidden' = f.z_hidden
        /\ a_hidden' = f.a_hidden
        /\ z_output' = f.z_output
        /\ a_output' = f.a_output
        /\ bias_output' = [i \in {0} |-> f.z_output[Rows(X) - 1]]
        /\ UNCHANGED <<weights_input_to_hidden, weights_hidden_to_output, bias_hidden,
                       learning_rate>>

\* the body of forward(X): stores the four intermediates
DoForward(X) ==
    LET f == forward(X, weights_input_to_hidden, bias_hidden,
                     weights_hidden_to_output, bias_output)
    IN  /\ z_hidden' = f.z_hidden
        /\ a_hidden' = f.a_hidden
        /\ z_output' = f.z_output
        /\ a_output' = f.a_output
        /\ UNCHANGED <<params, learning_rate>>

\* an update_parameters whose last statement adds instead of subtracting
DoUpdatePlus(g) ==
    /\ weights_input_to_hidden' = Descend(weights_input_to_hidden, learning_rate, g[1])
    /\ bias_hidden' = Descend(bias_hidden, learning_rate, g[2])
    /\ weights_hidden_to_output' = Descend(weights_hidden_to_output, learning_rate, g[3])
    /\ bias_output' = Descend(bias_output, -learning_rate, g[4])
    /\ UNCHANGED <<learning_rate, cache>>

\* an update_parameters that rebinds the hidden bias to a new array computed
\* from the first gradient: self.bias_hidden = self.bias_hidden - lr * g[1]
DoUpdateRebinding(g) ==
    /\ weights_input_to_hidden' = Descend(weights_input_to_hidden, learning_rate, g[1])
    /\ bias_hidden' = [i \in DOMAIN g[1] |-> [j \in DOMAIN g[1][i] |->
                            bias_hidden[0][j] - Mul(learning_rate, g[1][i][j])]]
    /\ weights_hidden_to_output' = Descend(weights_hidden_to_output, learning_rate, g[3])
    /\ bias_output' = Descend(bias_output, learning_rate, g[4])
    /\ UNCHANGED <<learning_rate, cache>>

\* the body of update_parameters(g): four in-place subtractions
DoUpdate(g) ==
    /\ weights_input_to_hidden' = Descend(weights_input_to_hidden, learning_rate, g[1])
    /\ bias_hidden' = Descend(bias_hidden, learning_rate, g[2])
    /\ weights_hidden_to_output' = Descend(weights_hidden_to_output, learning_rate, g[3])
    /\ bias_output' = Descend(bias_output, learning_rate, g[4])
    /\ UNCHANGED <<learning_rate, cache>>

\* a backward that runs the forward pass on its own argument instead of
\* reading the cache
BackwardFresh(X, Y) ==
    LET f == forward(X, weights_input_to_hidden, bias_hidden,
                     weights_hidden_to_output, bias_output)
    IN  backward(X, Y, f.z_hidden, f.a_hidden, f.a_output, weights_hidden_to_output)

\* the locals of backward(X, Y) in the current state
BackwardNow(X, Y) == backward(X, Y, z_hidden, a_hidden, a_output, weights_hidden_to_output)

\* a public call may start: no call is active and the call budget is not spent
CanCall == pc = "idle" /\ ncalls < MaxCalls

\* nn.forward(X): np.dot raises ValueError before anything is stored
ForwardCall(X) ==
    /\ CanCall
    /\ IF forward_ok(X, weights_input_to_hidden)
       THEN /\ DoForward(X)
            /\ ret' = [kind |-> "matrix", val |-> a_output']
            /\ step' = "forward"
       ELSE /\ ret' = ValueError
            /\ step' = "forward_raise"
            /\ UNCHANGED <<params, learning_rate, cache>>
    /\ ncalls' = ncalls + 1
    /\ UNCHANGED <<frame, observations, plot, bw, counts, pred_log>>

\* nn.forward(Batch(b))
Forward(b) == ForwardCall(Batch(b))

\* nn.compute_loss(Y, P): a pure call
ComputeLossCall(Y, P) ==
    /\ CanCall
    /\ IF compute_loss_ok(Y, P)
       THEN /\ ret' = [kind |-> "loss", val |-> compute_loss(Y, P), y_true |-> Y, y_pred |-> P]
            /\ step' = "compute_loss"
       ELSE /\ ret' = ValueError
            /\ step' = "compute_loss_raise"
    /\ ncalls' = ncalls + 1
    /\ UNCHANGED <<params, learning_rate, cache, frame, observations, plot, bw, counts,
                   pred_log>>

\* nn.predict(Batch(b))
Predict(b) ==
    /\ CanCall
    /\ DoForward(Batch(b))
    /\ ret' = [kind |-> "labels", val |-> argmax_rows(a_output')]
    /\ step' = "predict"
    /\ ncalls' = ncalls + 1
    /\ pred_log' = Append(pred_log, <<b, ret'.val>>)
    /\ UNCHANGED <<frame, observations, plot, bw, counts>>

\* a backward that also applies the gradients it computed
BackwardApplying(b) ==
    /\ CanCall
    /\ a_output # <<>>
    /\ ncalls' = ncalls + 1
    /\ bw' = BackwardNow(Batch(b), Labels(b))
    /\ ret' = [kind |-> "gradients", val |-> Gradients(bw')]
    /\ step' = "backward"
    /\ DoUpdate(ret'.val)
    /\ UNCHANGED <<frame, observations, plot, counts, pred_log>>

\* nn.backward(X, Y); without a cache the first read of self.a_output raises
\* AttributeError, and operands that do not fit raise ValueError
BackwardCall(X, Y) ==
    /\ CanCall
    /\ ncalls' = ncalls + 1
    /\ IF a_output = <<>>
       THEN /\ ret' = [kind |-> "AttributeError", val |-> <<>>]
            /\ step' = "backward_raise"
            /\ UNCHANGED bw
       ELSE IF ~backward_ok(X, Y, z_hidden, a_hidden, a_output, weights_hidden_to_output)
       THEN /\ ret' = ValueError
            /\ step' = "backward_raise"
            /\ UNCHANGED bw
       ELSE /\ bw' = BackwardNow(X, Y)
            /\ ret' = [kind |-> "gradients", val |-> Gradients(bw')]
            /\ step' = "backward"
    /\ UNCHANGED <<params, learning_rate, cache, frame, observations, plot, counts, pred_log>>

\* nn.backward(Batch(b), Labels(b))
Backward(b) == BackwardCall(Batch(b), Labels(b))

\* nn.update_parameters(*g)
UpdateParameters(g) ==
    /\ CanCall
    /\ DoUpdate(g)
    /\ ret' = None
    /\ step' = "update_parameters"
    /\ ncalls' = ncalls + 1
    /\ pred_log' = NoPredictions
    /\ UNCHANGED <<frame, observations, plot, bw, counts>>

\* the gradient tuples a caller has at hand
GradientChoices ==
    {SampleGradients} \cup (IF ret.kind = "gradients" THEN {ret.val} ELSE {})

\* nn.train(X, Y, e): entry, and loss_history = []
TrainCall(X, Y, e) ==
    /\ CanCall
    /\ pc' = "loop"
    /\ x' = X /\ y_true' = Y /\ epochs' = e
    /\ next_epoch' = 0
    /\ loss_history' = <<>>
    /\ observations' = <<>>
    /\ plot' = <<>>
    /\ counts' = NoCounts
    /\ step' = "train"
    /\ ncalls' = ncalls + 1
    /\ pred_log' = NoPredictions
    /\ UNCHANGED <<params, learning_rate, cache, epoch, y_pred, loss, grads, ret, bw>>

\* an exception leaves train: the call ends without a plot
TrainRaises == pc' = "idle" /\ ret' = ValueError /\ step' = "train_raise"

\* a train that runs one forward pass on entry, before the loop
TrainPriming(b, e) ==
    /\ CanCall
    /\ DoForward(Batch(b))
    /\ pc' = "loop"
    /\ x' = Batch(b) /\ y_true' = Labels(b) /\ epochs' = e
    /\ next_epoch' = 0
    /\ loss_history' = <<>>
    /\ observations' = <<>>
    /\ plot' = <<>>
    /\ counts' = NoCounts
    /\ step' = "train"
    /\ ncalls' = ncalls + 1
    /\ pred_log' = NoPredictions
    /\ UNCHANGED <<epoch, y_pred, loss, grads, ret, bw>>

\* nn.train(Batch(b), Labels(b), e)
Train(b, e) == TrainCall(Batch(b), Labels(b), e)

\* a loop header that iterates over range(epochs + 1)
TrainLoopOneMore ==
    /\ pc = "loop"
    /\ IF next_epoch < epochs + 1
       THEN /\ epoch' = next_epoch
            /\ next_epoch' = next_epoch + 1
            /\ pc' = "forward"
       ELSE /\ pc' = "plot"
            /\ UNCHANGED <<epoch, next_epoch>>
    /\ step' = "train_loop"
    /\ UNCHANGED <<params, learning_rate, cache, x, y_true, epochs, loss_history, y_pred,
                   loss, grads, ret, observations, plot, bw, ncalls, counts, pred_log>>

\* for epoch in range(epochs): the next value, or the end of the loop
TrainLoop ==
    /\ pc = "loop"
    /\ IF next_epoch < epochs
       THEN /\ epoch' = next_epoch
            /\ next_epoch' = next_epoch + 1
            /\ pc' = "forward"
       ELSE /\ pc' = "plot"
            /\ UNCHANGED <<epoch, next_epoch>>
    /\ step' = "train_loop"
    /\ UNCHANGED <<params, learning_rate, cache, x, y_true, epochs, loss_history, y_pred,
                   loss, grads, ret, observations, plot, bw, ncalls, counts, pred_log>>

\* a train that runs the forward pass in its first epoch only and reuses the
\* cache afterwards
TrainForwardOnce ==
    /\ pc = "forward"
    /\ IF epoch = 0 THEN DoForward(x) ELSE UNCHANGED <<params, learning_rate, cache>>
    /\ y_pred' = a_output'
    /\ pc' = "loss"
    /\ step' = "train_forward"
    /\ counts' = [counts EXCEPT !.forward = @ + 1]
    /\ UNCHANGED <<x, y_true, epochs, epoch, next_epoch, loss_history, loss, grads,
                   ret, observations, plot, bw, ncalls, pred_log>>

\* y_pred = self.forward(x)
TrainForward ==
    /\ pc = "forward"
    /\ IF forward_ok(x, weights_input_to_hidden)
       THEN /\ DoForward(x)
            /\ y_pred' = a_output'
            /\ pc' = "loss"
            /\ step' = "train_forward"
            /\ UNCHANGED ret
       ELSE /\ TrainRaises
            /\ UNCHANGED <<params, learning_rate, cache, y_pred>>
    /\ counts' = [counts EXCEPT !.forward = @ + 1]
    /\ UNCHANGED <<x, y_true, epochs, epoch, next_epoch, loss_history, loss, grads,
                   observations, plot, bw, ncalls, pred_log>>

\* a train that rebinds loss_history to a one-entry list instead of appending
TrainLossRebind ==
    /\ pc = "loss"
    /\ loss' = compute_loss(y_true, y_pred)
    /\ loss_history' = <<loss'>>
    /\ pc' = "backward"
    /\ step' = "train_loss"
    /\ counts' = [counts EXCEPT !.compute_loss = @ + 1]
    /\ UNCHANGED <<params, learning_rate, cache, x, y_true, epochs, epoch, next_epoch,
                   y_pred, grads, ret, observations, plot, bw, ncalls, pred_log>>

\* loss = self.compute_loss(y_true, y_pred); loss_history.append(loss)
TrainLoss ==
    /\ pc = "loss"
    /\ IF compute_loss_ok(y_true, y_pred)
       THEN /\ loss' = compute_loss(y_true, y_pred)
            /\ loss_history' = Append(loss_history, loss')
            /\ pc' = "backward"
            /\ step' = "train_loss"
            /\ UNCHANGED ret
       ELSE /\ TrainRaises
            /\ UNCHANGED <<loss, loss_history>>
    /\ counts' = [counts EXCEPT !.compute_loss = @ + 1]
    /\ UNCHANGED <<params, learning_rate, cache, x, y_true, epochs, epoch, next_epoch,
                   y_pred, grads, observations, plot, bw, ncalls, pred_log>>

\* dw_input_to_hidden, ... = self.backward(x, y_true)
TrainBackward ==
    /\ pc = "backward"
    /\ IF backward_ok(x, y_true, z_hidden, a_hidden, a_output, weights_hidden_to_output)
       THEN /\ bw' = BackwardNow(x, y_true)
            /\ grads' = Gradients(bw')
            /\ pc' = "update"
            /\ step' = "train_backward"
            /\ UNCHANGED ret
       ELSE /\ TrainRaises
            /\ UNCHANGED <<bw, grads>>
    /\ counts' = [counts EXCEPT !.backward = @ + 1]
    /\ UNCHANGED <<params, learning_rate, cache, x, y_true, epochs, epoch, next_epoch,
                   loss_history, y_pred, loss, observations, plot, ncalls, pred_log>>

\* a train that runs the forward pass again after the update, so that the
\* cache it leaves is that of the updated parameters
TrainUpdateRefreshing ==
    /\ pc = "update"
    /\ LET W_ih == Descend(weights_input_to_hidden, learning_rate, grads[1])
           b_h  == Descend(bias_hidden, learning_rate, grads[2])
           W_ho == Descend(weights_hidden_to_output, learning_rate, grads[3])
           b_o  == Descend(bias_output, learning_rate, grads[4])
       IN  \E f \in {forward(x, W_ih, b_h, W_ho, b_o)} :
            /\ weights_input_to_hidden' = W_ih
            /\ bias_hidden' = b_h
            /\ weights_hidden_to_output' = W_ho
            /\ bias_output' = b_o
            /\ z_hidden' = f.z_hidden
            /\ a_hidden' = f.a_hidden
            /\ z_output' = f.z_output
            /\ a_output' = f.a_output
    /\ pc' = "print"
    /\ step' = "train_update"
    /\ counts' = [counts EXCEPT !.update_parameters = @ + 1]
    /\ pred_log' = NoPredictions
    /\ UNCHANGED <<learning_rate, x, y_true, epochs, epoch, next_epoch, loss_history,
                   y_pred, loss, grads, ret, observations, plot, bw, ncalls>>

\* a train that, after the update, computes the loss again from the updated
\* parameters and records that one for the epoch
TrainUpdateRecording ==
    /\ pc = "update"
    /\ DoUpdate(grads)
    /\ loss' = compute_loss(y_true, forward(x, weights_input_to_hidden', bias_hidden',
                                            weights_hidden_to_output', bias_output').a_output)
    /\ loss_history' = [loss_history EXCEPT ![Len(loss_history)] = loss']
    /\ pc' = "print"
    /\ step' = "train_update"
    /\ counts' = [counts EXCEPT !.update_parameters = @ + 1]
    /\ pred_log' = NoPredictions
    /\ UNCHANGED <<x, y_true, epochs, epoch, next_epoch, y_pred,
                   grads, ret, observations, plot, bw, ncalls>>

\* self.update_parameters(dw_input_to_hidden, ...)
TrainUpdate ==
    /\ pc = "update"
    /\ DoUpdate(grads)
    /\ pc' = "print"
    /\ step' = "train_update"
    /\ counts' = [counts EXCEPT !.update_parameters = @ + 1]
    /\ pred_log' = NoPredictions
    /\ UNCHANGED <<x, y_true, epochs, epoch, next_epoch, loss_history, y_pred, loss,
                   grads, ret, observations, plot, bw, ncalls>>

\* a train that reports at the end of every hundred epochs: (epoch + 1) % 100 == 0
TrainPrintAfter ==
    /\ pc = "print"
    /\ observations' = IF (epoch + 1) % PrintEvery = 0
                       THEN Append(observations, <<epoch, loss>>)
                       ELSE observations
    /\ pc' = "loop"
    /\ step' = "train_print"
    /\ UNCHANGED <<params, learning_rate, cache, x, y_true, epochs, epoch, next_epoch,
                   loss_history, y_pred, loss, grads, ret, plot, bw, ncalls, counts, pred_log>>

\* if epoch % 100 == 0: print(f"Epoch {epoch}, loss: {loss}")
TrainPrint ==
    /\ pc = "print"
    /\ observations' = IF epoch % PrintEvery = 0
                       THEN Append(observations, <<epoch, loss>>)
                       ELSE observations
    /\ pc' = "loop"
    /\ step' = "train_print"
    /\ UNCHANGED <<params, learning_rate, cache, x, y_true, epochs, epoch, next_epoch,
                   loss_history, y_pred, loss, grads, ret, plot, bw, ncalls, counts, pred_log>>

\* a train that plots against range(0, epochs + 1, 100)
TrainPlotInclusive ==
    /\ pc = "plot"
    /\ plot' = [xs |-> Range(0, epochs + 1, PrintEvery), ys |-> Slice(loss_history, PrintEvery)]
    /\ ret' = None
    /\ pc' = "idle"
    /\ step' = "train_return"
    /\ UNCHANGED <<params, learning_rate, cache, x, y_true, epochs, epoch, next_epoch,
                   loss_history, y_pred, loss, grads, observations, bw, ncalls, counts,
                   pred_log>>

\* plt.plot(range(0, epochs, 100), loss_history[::100]) ... plt.show(), and
\* the return of train
TrainPlot ==
    /\ pc = "plot"
    /\ plot' = [xs |-> Range(0, epochs, PrintEvery), ys |-> Slice(loss_history, PrintEvery)]
    /\ ret' = None
    /\ pc' = "idle"
    /\ step' = "train_return"
    /\ UNCHANGED <<params, learning_rate, cache, x, y_true, epochs, epoch, next_epoch,
                   loss_history, y_pred, loss, grads, observations, bw, ncalls, counts,
                   pred_log>>

TrainStep ==
    \/ TrainLoop
    \/ TrainForward
    \/ TrainLoss
    \/ TrainBackward
    \/ TrainUpdate
    \/ TrainPrint
    \/ TrainPlot

\* any sequence of public calls, with short train calls
Next ==
    \/ \E b \in Batches : Forward(b)
    \/ \E b \in Batches : Predict(b)
    \/ \E b \in Batches : Backward(b)
    \/ \E g \in GradientChoices : UpdateParameters(g)
    \/ \E b \in Batches, e \in ShortEpochs : Train(b, e)
    \/ TrainStep

Spec == Init /\ [][Next]_vars

\* the calls of a script on the data it holds, up to a budget of calls;
\* compute_loss gets probabilities of its own choice or those forward
\* returned, and train, as in the notebook, is the first call made
CallNext ==
    \/ ForwardCall(x)
    \/ \E P \in ProbabilityChoices(Rows(y_true))
                \cup (IF ret.kind = "matrix" THEN {ret.val} ELSE {}) :
            ComputeLossCall(y_true, P)
    \/ BackwardCall(x, y_true)
    \/ \E e \in ShortEpochs : ncalls = 0 /\ TrainCall(x, y_true, e)
    \/ TrainStep

CallSpec == CallInit /\ [][CallNext]_vars

\* one long train call on a freshly constructed network
NextTrain ==
    \/ \E b \in Batches, e \in EpochChoices : ncalls = 0 /\ Train(b, e)
    \/ TrainStep

TrainSpec == Init /\ [][NextTrain]_vars

\* the positions of a train call
TrainLabels == {"loop", "forward", "loss", "backward", "update", "print", "plot"}

\* the active train call moves on to another statement, or returns; every
\* statement of train is one action guarded by its position alone
TrainAdvances == pc \in TrainLabels /\ pc' \in (TrainLabels \cup {"idle"}) \ {pc}

\* a running train call keeps executing: the program is sequential and
\* nothing suspends it
FairTrainSpec == TrainSpec /\ WF_pc(TrainAdvances)

(***************************************************************************)
(* Properties.                                                             *)
(***************************************************************************)
\* every count of the method calls made by the active train call equals n
CountsAre(n) ==
    /\ counts.forward = n
    /\ counts.compute_loss = n
    /\ counts.backward = n
    /\ counts.update_parameters = n

\* the number of epochs the active train call has completed, at the loop header
Completed == next_epoch

\* C1, safety: at the loop header every method has been called once per
\* completed iteration; inside iteration k the four calls are made once each,
\* in order; the loop is left only after exactly `epochs` iterations, and
\* train returns with exactly `epochs` updates applied
TrainCallsExact ==
    /\ pc = "loop" => CountsAre(Completed) /\ Completed <= epochs
    /\ pc = "forward" => CountsAre(epoch) /\ epoch < epochs
    /\ pc = "loss" => counts = [forward |-> epoch + 1, compute_loss |-> epoch,
                                backward |-> epoch, update_parameters |-> epoch]
    /\ pc = "backward" => counts = [forward |-> epoch + 1, compute_loss |-> epoch + 1,
                                    backward |-> epoch, update_parameters |-> epoch]
    /\ pc = "update" => counts = [forward |-> epoch + 1, compute_loss |-> epoch + 1,
                                  backward |-> epoch + 1, update_parameters |-> epoch]
    /\ pc = "print" => CountsAre(epoch + 1)
    /\ pc = "plot" \/ step = "train_return" => CountsAre(epochs) /\ Completed = epochs

\* C1: train(X, Y_true, epochs) returns, after exactly `epochs` iterations of
\* one forward, one compute_loss, one backward and one update_parameters each
C1_TrainTerminatesExact ==
    /\ []TrainCallsExact
    /\ (step = "train") ~> (step = "train_return")

\* a train call of more than a reporting period has returned
C1_Witness ==
    step = "train_return" /\ epochs > PrintEvery /\ counts.update_parameters = epochs

\* the intermediates forward computes from X under the stored parameters
ForwardNow(X) ==
    forward(X, weights_input_to_hidden, bias_hidden, weights_hidden_to_output, bias_output)

\* the cache holds exactly what forward computes from X now
CacheIsForwardOf(X) ==
    /\ z_hidden = ForwardNow(X).z_hidden
    /\ a_hidden = ForwardNow(X).a_hidden
    /\ z_output = ForwardNow(X).z_output
    /\ a_output = ForwardNow(X).a_output

\* C2: when train is about to call backward(x, y_true), the last two calls
\* were forward(x) and compute_loss of the same epoch, with no update in
\* between, and the cache is what forward computes from x under the current
\* parameters
C2_BackwardAfterForward ==
    pc = "backward" =>
        /\ step = "train_loss"
        /\ counts.forward = counts.backward + 1
        /\ counts.update_parameters = counts.backward
        /\ CacheIsForwardOf(x)

\* train is about to call backward in a later epoch, after parameters moved
C2_Witness ==
    /\ pc = "backward"
    /\ epoch >= 1
    /\ bias_output # Zeros(output_size)

\* C3: a backward call, public or made by train, raising or not, changes no
\* weight, no bias and not the learning rate
C3_BackwardKeepsParameters ==
    [][step' \in {"backward", "backward_raise", "train_backward"}
         => UNCHANGED <<params, learning_rate>>]_vars

\* some entry of a matrix is not zero
NonZero(M) == \E i \in DOMAIN M : \E j \in DOMAIN M[i] : M[i][j] # 0

\* a public backward call has returned four gradients that are not all zero
C3_Witness ==
    /\ step = "backward"
    /\ ret.kind = "gradients"
    /\ \A k \in 1 .. 4 : NonZero(ret.val[k])

\* p2 is p minus learning_rate times g, elementwise
IsDescent(p2, p, g) ==
    /\ DOMAIN p2 = DOMAIN p
    /\ \A i \in DOMAIN p :
        /\ DOMAIN p2[i] = DOMAIN p[i]
        /\ \A j \in DOMAIN p[i] : p2[i][j] = p[i][j] - Mul(learning_rate, g[i][j])

\* the four parameters after the step are those before it, each moved by
\* the gradient in its own position of g
UpdatedBy(g) ==
    /\ IsDescent(weights_input_to_hidden', weights_input_to_hidden, g[1])
    /\ IsDescent(bias_hidden', bias_hidden, g[2])
    /\ IsDescent(weights_hidden_to_output', weights_hidden_to_output, g[3])
    /\ IsDescent(bias_output', bias_output, g[4])

\* C4: update_parameters moves each parameter by learning_rate times the
\* gradient passed in its position (train passes grads; a public caller one
\* of the tuples at hand) and returns None
C4_UpdateIsDescent ==
    [][/\ step' = "train_update" => UpdatedBy(grads)
       /\ step' = "update_parameters" =>
            /\ \E g \in GradientChoices : UpdatedBy(g)
            /\ ret' = None]_vars

\* an update has moved every one of the four parameters
C4_Witness ==
    /\ step \in {"train_update", "update_parameters"}
    /\ weights_input_to_hidden # Rand(1, 3, input_size, hidden_size)
    /\ weights_hidden_to_output # Rand(1, 1, hidden_size, output_size)
    /\ bias_hidden # Zeros(hidden_size)
    /\ bias_output # Zeros(output_size)

\* C5: the predict calls made on the same batch since update_parameters or
\* train last ran all returned the same labels
C5_PredictRepeatable ==
    \A k1 \in DOMAIN pred_log : \A k2 \in DOMAIN pred_log :
        pred_log[k1][1] = pred_log[k2][1] => pred_log[k1][2] = pred_log[k2][2]

\* predict ran twice on one batch with a predict on another batch in between
C5_Witness ==
    /\ Len(pred_log) >= 3
    /\ pred_log[1][1] = pred_log[3][1]
    /\ pred_log[2][1] # pred_log[1][1]

\* the original C6: a forward or predict call leaves every field of the
\* instance, the cached intermediates included, as it was
C6_ForwardChangesNoField ==
    [][step' \in {"forward", "predict", "train_forward"}
         => UNCHANGED <<params, learning_rate, cache>>]_vars

\* C6, amended: a forward or predict call leaves the weights, the biases and
\* the learning rate as they were, and leaves in the cache the intermediates
\* it computed from its input
C6_ForwardKeepsParameters ==
    /\ [][step' \in {"forward", "predict", "train_forward"}
            => UNCHANGED <<params, learning_rate>>]_vars
    /\ [](step \in {"forward", "predict", "train_forward"}
            => \E b \in Batches : CacheIsForwardOf(Batch(b)))

\* a forward call has overwritten the cache left by a call on another batch
C6_Witness ==
    /\ step = "forward"
    /\ ncalls >= 2
    /\ a_output # <<>>
    /\ \E b \in Batches : ~CacheIsForwardOf(Batch(b))

\* C7: predict returns for every row a class index whose probability is no
\* smaller than any other and strictly larger than that of every lower index
C7_PredictIsFirstArgmax ==
    step = "predict" =>
        \A i \in DOMAIN a_output :
            LET c == ret.val[i]
                P == a_output[i]
            IN  /\ c \in Idx(output_size)
                /\ \A d \in Idx(output_size) :
                    /\ P[d] <= P[c]
                    /\ d < c => P[d] < P[c]

\* predict has broken a tie: some row's largest probability occurs twice, and
\* some row's label is not 0
C7_Witness ==
    /\ step = "predict"
    /\ \E i \in DOMAIN a_output :
        \E c \in Idx(output_size) : \E d \in Idx(output_size) :
            /\ c < d
            /\ a_output[i][c] = a_output[i][d]
            /\ ret.val[i] = c
    /\ \E i \in DOMAIN a_output : ret.val[i] # 0

\* C8: after a backward call, dz_hidden is 0 wherever the cached hidden
\* pre-activation is zero or negative, and equals da_hidden wherever it is
\* positive
C8_ReluMask ==
    step \in {"backward", "train_backward"} =>
        \A i \in DOMAIN z_hidden : \A j \in DOMAIN z_hidden[i] :
            bw.dz_hidden[i][j] = IF z_hidden[i][j] > 0 THEN bw.da_hidden[i][j] ELSE 0

\* backward has masked a non-zero upstream gradient at a pre-activation of
\* exactly 0, masked one at a negative pre-activation, and passed one through
C8_Witness ==
    /\ step \in {"backward", "train_backward"}
    /\ \E i \in DOMAIN z_hidden : \E j \in DOMAIN z_hidden[i] :
        z_hidden[i][j] = 0 /\ bw.da_hidden[i][j] # 0
    /\ \E i \in DOMAIN z_hidden : \E j \in DOMAIN z_hidden[i] :
        z_hidden[i][j] < 0 /\ bw.da_hidden[i][j] # 0
    /\ \E i \in DOMAIN z_hidden : \E j \in DOMAIN z_hidden[i] :
        z_hidden[i][j] > 0 /\ bw.dz_hidden[i][j] # 0

\* s is an initial segment of t
IsPrefix(s, t) == Len(s) <= Len(t) /\ \A k \in 1 .. Len(s) : t[k] = s[k]

\* C9: the loss history is empty when train starts, holds one entry per
\* completed epoch, and every step of the call keeps the entries it held
C9_LossHistoryAppendOnly ==
    /\ [](/\ step = "train" => loss_history = <<>>
          /\ pc = "loop" => Len(loss_history) = Completed
          /\ pc \in {"forward", "loss"} => Len(loss_history) = epoch
          /\ pc \in {"backward", "update", "print"} => Len(loss_history) = epoch + 1
          /\ step = "train_return" => Len(loss_history) = epochs)
    /\ [][step' # "train" => IsPrefix(loss_history, loss_history')]_vars

\* a train call has returned with a long history whose entries differ
C9_Witness ==
    /\ step = "train_return"
    /\ Len(loss_history) > PrintEvery
    /\ loss_history[1] # loss_history[2]
    /\ loss_history[2] # loss_history[Len(loss_history)]

\* ceil(n / 100)
Reports(n) == (n + PrintEvery - 1) \div PrintEvery

\* C10: after k completed epochs the observations emitted are, in order, one
\* for each epoch e < k with e % 100 = 0, carrying the loss recorded for
\* epoch e; a returned call has emitted ceil(epochs / 100) of them
C10_ObservationCadence ==
    /\ pc = "loop" =>
        observations = [n \in 1 .. Reports(Completed) |->
                            <<(n - 1) * PrintEvery, loss_history[(n - 1) * PrintEvery + 1]>>]
    /\ pc = "print" =>
        observations = [n \in 1 .. Reports(epoch) |->
                            <<(n - 1) * PrintEvery, loss_history[(n - 1) * PrintEvery + 1]>>]
    /\ step = "train_return" => Len(observations) = Reports(epochs)

\* a call of more than 100 epochs has returned after two observations with
\* different losses
C10_Witness ==
    /\ step = "train_return"
    /\ epochs = PrintEvery + 1
    /\ Len(observations) = 2
    /\ observations[1][2] # observations[2][2]

\* C11: when train returns, the epoch series and the loss series handed to
\* plt.plot have the same length, their pairs are the observations emitted
\* during the run, in order, and the loss paired with epoch e is the entry
\* the loss history holds for epoch e
C11_PlotMatchesObservations ==
    step = "train_return" =>
        /\ Len(plot.xs) = Len(plot.ys)
        /\ observations = [n \in 1 .. Len(plot.xs) |-> <<plot.xs[n], plot.ys[n]>>]
        /\ \A n \in 1 .. Len(plot.xs) : plot.ys[n] = loss_history[plot.xs[n] + 1]

\* a call whose epoch count is not a multiple of 100 has plotted two pairs
\* with different losses
C11_Witness ==
    /\ step = "train_return"
    /\ epochs % PrintEvery # 0
    /\ Len(plot.xs) = 2
    /\ plot.ys[1] # plot.ys[2]

\* M has r rows of c entries each
HasShape(M, r, c) == DOMAIN M = Idx(r) /\ \A i \in Idx(r) : DOMAIN M[i] = Idx(c)

\* C12: in every state the four parameters have the shapes __init__ gave them
C12_ParameterShapesFixed ==
    /\ HasShape(weights_input_to_hidden, input_size, hidden_size)
    /\ HasShape(weights_hidden_to_output, hidden_size, output_size)
    /\ HasShape(bias_hidden, 1, hidden_size)
    /\ HasShape(bias_output, 1, output_size)

\* a public update_parameters call has run after a train call that moved the
\* parameters
C12_Witness ==
    /\ step = "update_parameters"
    /\ counts.update_parameters >= 1
    /\ bias_hidden # Zeros(hidden_size)
    /\ weights_input_to_hidden # Rand(1, 3, input_size, hidden_size)

\* the sum of row i of P
RowSum(P, i) == SumTo(P[i], Cols(P))

\* C14: what forward returns (and caches as a_output) has one row per row of
\* the batch and output_size columns, every entry lies in [0, 1], and every
\* row sums to 1 within the rounding of its entries (half a unit each)
C14_ForwardIsDistribution ==
    step \in {"forward", "predict", "train_forward"} =>
        /\ step = "forward" => ret.val = a_output
        /\ HasShape(a_output, batch_size, output_size)
        /\ \A i \in Idx(batch_size) :
            /\ \A j \in Idx(output_size) : a_output[i][j] >= 0 /\ a_output[i][j] <= Scale
            /\ 2 * (RowSum(a_output, i) - Scale) <= output_size
            /\ 2 * (Scale - RowSum(a_output, i)) <= output_size

\* forward has returned, for moved parameters, a row with one class above
\* one half and a row whose rounded entries do not sum to exactly 1
C14_Witness ==
    /\ step = "forward"
    /\ bias_output # Zeros(output_size)
    /\ \E i \in Idx(batch_size) : \E j \in Idx(output_size) : 2 * a_output[i][j] > Scale
    /\ \E i \in Idx(batch_size) : RowSum(a_output, i) # Scale

\* none of the four cached intermediates exists
NoCache == z_hidden = <<>> /\ a_hidden = <<>> /\ z_output = <<>> /\ a_output = <<>>

\* C19: a constructed network has no cache; while there is none, only a
\* forward pass (forward, predict, or the forward of a train epoch) creates
\* it, so a train call with epochs = 0 returns without one; and a backward
\* call made while there is none raises AttributeError, returns no gradients
\* and leaves the weights, the biases and the learning rate as they were
C19_BackwardNeedsCache ==
    /\ [](step = "init" => NoCache)
    /\ [][NoCache /\ step' \notin {"forward", "predict", "train_forward"}
            => NoCache']_vars
    /\ [][NoCache /\ step' \in {"backward", "backward_raise"}
            => /\ step' = "backward_raise"
               /\ ret'.kind = "AttributeError"
               /\ UNCHANGED <<params, learning_rate>>]_vars
    /\ [](pc = "forward" \/ step = "train_forward" => epochs >= 1)

\* backward has raised on a network on which a train call with epochs = 0
\* had returned before
C19_Witness ==
    /\ step = "backward_raise"
    /\ x # <<>>
    /\ epochs = 0
    /\ ret.kind = "AttributeError"

\* the loss of the stored parameters on the batch and labels of the train call
LossNow == CHOOSE v \in {compute_loss(y_true, P) : P \in {ForwardNow(x).a_output}} : TRUE

\* C20: in epoch k the loss is computed and recorded as entry k while exactly
\* k updates of the call have been applied, from the parameters stored then;
\* the update that follows does not change it, the observation of an epoch
\* carries the entry of that epoch, and a returned call has computed as many
\* losses as it applied updates, the last one before the final update
C20_LossPrecedesUpdate ==
    /\ pc \in {"backward", "update"} =>
        /\ counts.update_parameters = epoch
        /\ Len(loss_history) = epoch + 1
        /\ loss_history[epoch + 1] = LossNow
    /\ pc = "print" =>
        /\ counts.update_parameters = epoch + 1
        /\ Len(loss_history) = epoch + 1
        /\ loss = loss_history[epoch + 1]
        /\ loss_history[epoch + 1] = compute_loss(y_true, a_output)
    /\ pc \in TrainLabels \/ step = "train_return" =>
        \A n \in DOMAIN observations :
            observations[n][2] = loss_history[observations[n][1] + 1]
    /\ step = "train_return" =>
        /\ counts.compute_loss = counts.update_parameters
        /\ Len(loss_history) = epochs
        /\ epochs >= 1 => loss_history[epochs] = compute_loss(y_true, a_output)

\* a long call has returned, and the loss of the parameters it left differs
\* from every entry of its history
C20_Witness ==
    /\ step = "train_return"
    /\ epochs >= PrintEvery - 1
    /\ \A k \in DOMAIN loss_history : loss_history[k] # LossNow

\* the locals of backward(X, Y) when forward(X2) ran just before it
BackwardAfterForward(X2, X, Y) ==
    backward(X, Y, ForwardNow(X2).z_hidden, ForwardNow(X2).a_hidden,
             ForwardNow(X2).a_output, weights_hidden_to_output)

Within(a, b, tol) == a - b <= tol /\ b - a <= tol

\* g is the fixed-point product sum s (in squared units) divided by n, up to
\* the rounding of the product (half a unit) and of the quotient (half a unit)
IsMeanOfProducts(g, s, n) == Within(2 * g * n * Scale, 2 * s, (n + 1) * Scale)

\* g is the sum s divided by n, up to half a unit
IsMean(g, s, n) == Within(2 * g * n, 2 * s, n)

\* C17: after a backward call, with m the number of label rows, the cache
\* and the stored W_ho: dz_output = a_output - y_true; m * dW_ho is
\* transpose(a_hidden) . dz_output; m * db_o is the column sums of dz_output;
\* dz_hidden is dz_output . transpose(W_ho) where z_hidden > 0 and 0
\* elsewhere; m * dW_ih is transpose(x) . dz_hidden; m * db_h is the column
\* sums of dz_hidden; each up to the rounding of a product and a quotient;
\* and the call returns them in the order dW_ih, db_h, dW_ho, db_o
C17_GradientFormulas ==
    step \in {"backward", "train_backward"} =>
        LET m   == Rows(bw.y_true)
            R   == Idx(m)
            dzo == bw.dz_output
            dzh == bw.dz_hidden
            g   == IF step = "backward" THEN ret.val ELSE grads
        IN  /\ \A i \in R : \A c \in Idx(output_size) :
                dzo[i][c] = a_output[i][c] - bw.y_true[i][c]
            /\ \A h \in Idx(hidden_size) : \A c \in Idx(output_size) :
                IsMeanOfProducts(g[3][h][c],
                                 SumTo([i \in R |-> a_hidden[i][h] * dzo[i][c]], m), m)
            /\ \A c \in Idx(output_size) :
                IsMean(g[4][0][c], SumTo([i \in R |-> dzo[i][c]], m), m)
            /\ \A i \in R : \A h \in Idx(hidden_size) :
                IF z_hidden[i][h] > 0
                THEN Within(2 * dzh[i][h] * Scale,
                            2 * SumTo([c \in Idx(output_size) |->
                                          dzo[i][c] * weights_hidden_to_output[h][c]],
                                      output_size),
                            Scale)
                ELSE dzh[i][h] = 0
            /\ \A k \in Idx(input_size) : \A h \in Idx(hidden_size) :
                IsMeanOfProducts(g[1][k][h],
                                 SumTo([i \in R |-> bw.x[i][k] * dzh[i][h]], m), m)
            /\ \A h \in Idx(hidden_size) :
                IsMean(g[2][0][h], SumTo([i \in R |-> dzh[i][h]], m), m)

\* a backward call on moved parameters has returned four gradients that are
\* not zero, with hidden units both active and inactive
C17_Witness ==
    /\ step \in {"backward", "train_backward"}
    /\ bias_hidden # Zeros(hidden_size)
    /\ \A k \in 1 .. 4 : NonZero(Gradients(bw)[k])
    /\ \E i \in DOMAIN z_hidden : \E h \in DOMAIN z_hidden[i] : z_hidden[i][h] > 0
    /\ \E i \in DOMAIN z_hidden : \E h \in DOMAIN z_hidden[i] : z_hidden[i][h] <= 0

\* C13: whenever backward returns, to a caller or to train, for a batch of 1
\* to batch_size rows, its four gradients have in order the shapes of W_ih,
\* b_h, W_ho and b_o
C13_GradientShapes ==
    step \in {"backward", "train_backward"} =>
        LET g == IF step = "backward" THEN ret.val ELSE grads
        IN  /\ Rows(bw.x) \in 1 .. batch_size
            /\ HasShape(g[1], input_size, hidden_size)
            /\ HasShape(g[2], 1, hidden_size)
            /\ HasShape(g[3], hidden_size, output_size)
            /\ HasShape(g[4], 1, output_size)

\* backward has returned non-zero gradients after forward on a batch of
\* batch_size rows with one-hot labels
C13_Witness ==
    /\ step = "backward"
    /\ Rows(bw.x) = batch_size
    /\ bw.y_true = OneHot(batch_size, output_size)
    /\ CacheIsForwardOf(bw.x)
    /\ \A k \in 1 .. 4 : NonZero(ret.val[k])

\* Y has output_size columns and every row holds one 1 and otherwise 0
IsOneHot(Y) ==
    \A i \in DOMAIN Y :
        /\ DOMAIN Y[i] = Idx(output_size)
        /\ \E c \in Idx(output_size) :
            \A d \in Idx(output_size) : Y[i][d] = IF d = c THEN Scale ELSE 0

\* P has output_size columns, entries in [0, 1], and rows that sum to 1
\* within the rounding of their entries
IsDistribution(P) ==
    \A i \in DOMAIN P :
        /\ DOMAIN P[i] = Idx(output_size)
        /\ \A c \in Idx(output_size) : P[i][c] >= 0 /\ P[i][c] <= Scale
        /\ Within(2 * RowSum(P, i), 2 * Scale, output_size)

\* a loss of at least 0: its whole units are rounded down
NonNegative(v) == v.milli >= 0

\* C15, as claimed: compute_loss returns a value of at least 0 for one-hot
\* labels and rows of probabilities, also when a row gives all of the
\* probability to the class of its label
C15_LossNonNegative ==
    /\ step = "compute_loss" /\ IsOneHot(ret.y_true) /\ IsDistribution(ret.y_pred)
            => NonNegative(ret.val)
    /\ step = "train_loss" /\ IsOneHot(y_true) /\ IsDistribution(y_pred)
            => NonNegative(loss)

\* C16, as claimed: with a feature matrix whose width is not input_size no
\* forward pass completes, and with a label matrix whose width is not
\* output_size no loss and no gradients are computed or returned and train
\* applies no update
C16_MismatchRaises ==
    /\ Cols(x) # input_size =>
        /\ step \notin {"forward", "train_forward"}
        /\ NoCache
    /\ Cols(y_true) # output_size =>
        /\ step \notin {"compute_loss", "train_loss", "backward", "train_backward",
                         "train_update"}
        /\ ret.kind \notin {"loss", "gradients"}
        /\ bias_hidden = Zeros(hidden_size) /\ bias_output = Zeros(output_size)

\* the parameters that update_parameters(*g) turned into the stored ones: each
\* statement p -= learning_rate * g undone
BeforeUpdate(g) ==
    <<Descend(weights_input_to_hidden, -learning_rate, g[1]),
      Descend(bias_hidden, -learning_rate, g[2]),
      Descend(weights_hidden_to_output, -learning_rate, g[3]),
      Descend(bias_output, -learning_rate, g[4])>>

\* the intermediates forward computes from X under the parameters stored
\* before update_parameters(*g)
ForwardBefore(X, g) ==
    CHOOSE f \in {forward(X, p[1], p[2], p[3], p[4]) : p \in {BeforeUpdate(g)}} : TRUE

\* the cache holds exactly what forward computed from X before
\* update_parameters(*g)
CacheIsForwardBefore(X, g) ==
    \E f \in {ForwardBefore(X, g)} :
        /\ z_hidden = f.z_hidden
        /\ a_hidden = f.a_hidden
        /\ z_output = f.z_output
        /\ a_output = f.a_output

\* the active train call has applied the update of an epoch and made no
\* forward pass since, or it has returned after at least one epoch
UpdatedLast ==
    \/ pc = "print"
    \/ pc \in {"loop", "plot"} /\ next_epoch >= 1
    \/ step = "train_return" /\ epochs >= 1

\* C21: the update of a train epoch changes the parameters and leaves the
\* cache, which was the forward pass of x under the parameters of before; so
\* from the update on, and when train returns with epochs >= 1, the cache is
\* forward(x) of the parameters before the final update while the stored
\* parameters are the updated ones; a backward call made right after train
\* computes from those activations and the stored weights_hidden_to_output;
\* and only a forward pass (forward, predict, the forward of a train epoch)
\* changes the cache, to the intermediates of the stored parameters
C21_CacheLagsParameters ==
    /\ [](pc = "update" => CacheIsForwardOf(x))
    /\ [][pc = "update" => cache' = cache /\ grads' = grads /\ x' = x]_vars
    /\ [](UpdatedLast => CacheIsForwardBefore(x, grads))
    /\ [][step = "train_return" /\ epochs >= 1 /\ step' \in {"backward", "backward_raise"}
            => \E f \in {ForwardBefore(x, grads)} :
                /\ step' = "backward"
                /\ bw' = backward(bw'.x, bw'.y_true, f.z_hidden, f.a_hidden, f.a_output,
                                  weights_hidden_to_output)
                /\ ret' = [kind |-> "gradients", val |-> Gradients(bw')]]_vars
    /\ [][cache' # cache => step' \in {"forward", "predict", "train_forward"}]_vars
    /\ [](step \in {"forward", "predict"} => \E b \in Batches : CacheIsForwardOf(Batch(b)))
    /\ [](step = "train_forward" => CacheIsForwardOf(x))

\* backward(x, y_true) has been called right after a train call on x of at
\* least one epoch returned: the cache is not the forward pass of x under the
\* stored parameters, the hidden-to-output weights are not those the cache
\* was computed from, and the gradients returned differ from those of
\* forward(x); backward(x, y_true)
C21_Witness ==
    /\ step = "backward"
    /\ ncalls = 2
    /\ epochs >= 1
    /\ counts.update_parameters = epochs
    /\ bw.x = x /\ bw.y_true = y_true
    /\ ~CacheIsForwardOf(x)
    /\ CacheIsForwardBefore(x, grads)
    /\ weights_hidden_to_output # BeforeUpdate(grads)[3]
    /\ \E k \in 1 .. 4 :
        ret.val[k] # Gradients(BackwardAfterForward(x, x, y_true))[k]

====
